---- MODULE Spec2Model ----
(***************************************************************************)
(* Execution-plan editing and introspection layer                          *)
(* (src/execution_plan/execution_plan_build/execution_plan_modify.c).      *)
(*                                                                         *)
(* Operators (OpBase) live in an arena Ops; each has a parent pointer, an  *)
(* ordered children array, an owning plan, a fixed type and a fixed        *)
(* modifies array.  Each ExecutionPlan has a root pointer.                 *)
(***************************************************************************)
EXTENDS Integers, Sequences, FiniteSets, TLC

\* ----------------------------------------------------------------------
\* Bounds
\* ----------------------------------------------------------------------

\* number of operators in the arena
NumOps == 5

\* number of structural edits performed on a drawn plan
MaxEdits == 1

\* number of structural edits performed in a row on a plan built from nothing
MaxSeqEdits == 3

\* ----------------------------------------------------------------------
\* Universe
\* ----------------------------------------------------------------------

NULL == 0

Ops == 1..NumOps

Plans == {"plan", "match_stream_plan"}

OPType_FILTER == "FILTER"
OPType_PROJECT == "PROJECT"
OPType_NODE_BY_LABEL_SCAN == "NODE_BY_LABEL_SCAN"
OPType_ARGUMENT == "ARGUMENT"
OPType_AGGREGATE == "AGGREGATE"
OPType_CARTESIAN_PRODUCT == "CARTESIAN_PRODUCT"

OPTypes == {OPType_FILTER, OPType_PROJECT, OPType_NODE_BY_LABEL_SCAN,
            OPType_ARGUMENT, OPType_AGGREGATE, OPType_CARTESIAN_PRODUCT}

Aliases == {"n", "m", "p"}

\* op->type: fixed when the operator is constructed
type ==
  [o \in Ops |->
     CASE o = 1 -> OPType_FILTER
       [] o = 2 -> OPType_PROJECT
       [] o = 3 -> OPType_NODE_BY_LABEL_SCAN
       [] o = 4 -> OPType_ARGUMENT
       [] o = 5 -> OPType_AGGREGATE
       [] OTHER -> OPType_CARTESIAN_PRODUCT]

\* op->modifies: the aliases the operator binds, fixed at construction
modifies ==
  [o \in Ops |->
     CASE o = 2 -> {"p"}
       [] o = 3 -> {"n"}
       [] o = 4 -> {"n"}
       [] o = 5 -> {"m"}
       [] OTHER -> {}]

VARIABLES
  parent,    \* op->parent, NULL when the op has none
  children,  \* op->children[0 .. childCount-1] as a sequence
  root,      \* plan->root for every plan
  plan,      \* op->plan
  aborted,   \* an ASSERT has failed
  edits,     \* number of structural edits performed so far
  last,      \* the most recent call: its name, arguments and result
  query_graph,  \* plan->query_graph for every plan, as its set of entities
  record_map,   \* plan->record_map for every plan, NULL or the mapping object
  freed,     \* the operations, record mappings and plans that were freed
  pc,        \* what is running: nothing, a run of edits, or the position
             \* inside ExecutionPlan_BuildOpsFromPath
  build      \* the locals of ExecutionPlan_BuildOpsFromPath

vars == <<parent, children, root, plan, aborted, edits, last,
          query_graph, record_map, freed, pc, build>>

\* the state outside the operator trees
planVars == <<query_graph, record_map, freed, pc, build>>

\* the mutable plan structure as one value
Tree == [parent |-> parent, children |-> children, root |-> root,
         plan |-> plan, ok |-> TRUE]

\* ----------------------------------------------------------------------
\* Structure helpers (definitions used to state properties)
\* ----------------------------------------------------------------------

RECURSIVE SeqToSet(_)
SeqToSet(s) == IF s = <<>> THEN {} ELSE {Head(s)} \cup SeqToSet(Tail(s))

\* index of the first occurrence of x in s, 0 if absent
RECURSIVE IndexFrom(_, _, _)
IndexFrom(s, x, i) ==
  IF i > Len(s) THEN 0
  ELSE IF s[i] = x THEN i ELSE IndexFrom(s, x, i + 1)

IndexOf(s, x) == IndexFrom(s, x, 1)

\* o and its proper ancestors, following parent pointers of par
RECURSIVE AncestorsOrSelf(_, _)
AncestorsOrSelf(par, o) ==
  IF o = NULL THEN {}
  ELSE {o} \cup AncestorsOrSelf(par, par[o])

\* number of parent links between o and the top of its tree
RECURSIVE Depth(_, _)
Depth(par, o) == IF par[o] = NULL THEN 0 ELSE 1 + Depth(par, par[o])

\* the operators of the subtree rooted at r (parent-pointer view)
SubtreeOf(par, r) ==
  IF r = NULL THEN {} ELSE {o \in Ops : r \in AncestorsOrSelf(par, o)}

\* ----------------------------------------------------------------------
\* Tree editing primitives
\* ----------------------------------------------------------------------
\* variant: the child is put in front of the existing children
AddChild_Prepend(t, p, child) ==
  IF ~t.ok THEN t
  ELSE [t EXCEPT !.children[p] = <<child>> \o @,
                 !.parent[child] = p]


_OpBase_AddChild(t, p, child) ==
  IF ~t.ok THEN t
  ELSE [t EXCEPT !.children[p] = Append(@, child),
                 !.parent[child] = p]
\* variant: the old child is removed and the new one appended at the end
ParentReplaceChild_Reorders(t, p, old_child, new_child) ==
  IF ~t.ok THEN t
  ELSE IF Len(t.children[p]) = 0 THEN [t EXCEPT !.ok = FALSE]
  ELSE LET i == IndexOf(t.children[p], old_child)
           c == t.children[p] IN
       IF i = 0 THEN [t EXCEPT !.ok = FALSE]
       ELSE [t EXCEPT !.children[p] =
                         Append(SubSeq(c, 1, i - 1) \o SubSeq(c, i + 1, Len(c)),
                                new_child),
                      !.parent[new_child] = p]


_ExecutionPlan_ParentReplaceChild(t, p, old_child, new_child) ==
  IF ~t.ok THEN t
  ELSE IF Len(t.children[p]) = 0 THEN [t EXCEPT !.ok = FALSE]
  ELSE LET i == IndexOf(t.children[p], old_child) IN
       IF i = 0 THEN [t EXCEPT !.ok = FALSE]
       ELSE [t EXCEPT !.children[p][i] = new_child,
                      !.parent[new_child] = p]

\* variant: the entry stays in the parent's array
RemoveChild_KeepsEntry(t, p, child) ==
  IF ~t.ok THEN t
  ELSE IF IndexOf(t.children[p], child) = 0 THEN [t EXCEPT !.ok = FALSE]
  ELSE [t EXCEPT !.parent[child] = NULL]


_OpBase_RemoveChild(t, p, child) ==
  IF ~t.ok THEN t
  ELSE LET i == IndexOf(t.children[p], child)
           c == t.children[p] IN
       IF i = 0 THEN [t EXCEPT !.ok = FALSE]
       ELSE [t EXCEPT !.children[p] =
                         SubSeq(c, 1, i - 1) \o SubSeq(c, i + 1, Len(c)),
                      !.parent[child] = NULL]

\* ----------------------------------------------------------------------
\* Structural editing API
\* ----------------------------------------------------------------------

ExecutionPlan_AddOp(t, p, newOp) == _OpBase_AddChild(t, p, newOp)

ExecutionPlan_PushBelow(t, a, b) ==
  LET pl == t.plan[a]
      t1 == [t EXCEPT !.plan[b] = pl] IN
  IF t1.parent[a] = NULL
  THEN [_OpBase_AddChild(t1, b, a) EXCEPT !.root[pl] = b]
  ELSE _OpBase_AddChild(
         _ExecutionPlan_ParentReplaceChild(t1, t1.parent[a], a, b), b, a)

\* variant: the chain below the new root is not followed
Tail_NoWalk(ch, o) == o

\* the deepest operator reached from o by following children[0]
RECURSIVE Tail_(_, _)
Tail_(ch, o) == IF Len(ch[o]) > 0 THEN Tail_(ch, ch[o][1]) ELSE o

ExecutionPlan_NewRoot(t, old_root, new_root) ==
  IF ~t.ok THEN t
  ELSE IF ~(t.parent[old_root] = NULL /\ t.parent[new_root] = NULL)
       THEN [t EXCEPT !.ok = FALSE]
  ELSE IF ~(Len(t.children[new_root]) <= 1) THEN [t EXCEPT !.ok = FALSE]
  ELSE _OpBase_AddChild(t, Tail_(t.children, new_root), old_root)

\* variant: the former root is not attached below the new one
UpdateRoot_DropsOldRoot(t, pl, new_root) == [t EXCEPT !.root[pl] = new_root]

ExecutionPlan_UpdateRoot(t, pl, new_root) ==
  LET t1 == IF t.root[pl] # NULL
            THEN ExecutionPlan_NewRoot(t, t.root[pl], new_root)
            ELSE t IN
  IF ~t1.ok THEN t1 ELSE [t1 EXCEPT !.root[pl] = new_root]

\* _OpBase_AddChild(parent, op->children[i]) for i = from .. childCount-1
RECURSIVE AddChildrenFrom(_, _, _, _)
AddChildrenFrom(t, p, cs, i) ==
  IF i > Len(cs) THEN t
  ELSE AddChildrenFrom(_OpBase_AddChild(t, p, cs[i]), p, cs, i + 1)

\* variant: a root with several children is accepted
RemoveOp_AcceptsBranchingRoot(t, pl, op) ==
  IF ~t.ok THEN t
  ELSE
    LET t1 ==
          IF t.parent[op] = NULL
          THEN IF Len(t.children[op]) < 1 THEN [t EXCEPT !.ok = FALSE]
               ELSE [t EXCEPT !.root[pl] = t.children[op][1],
                              !.parent[t.children[op][1]] = NULL]
          ELSE LET p == t.parent[op] IN
               IF Len(t.children[op]) > 0
               THEN AddChildrenFrom(
                      _ExecutionPlan_ParentReplaceChild(
                         t, p, op, t.children[op][1]),
                      p, t.children[op], 2)
               ELSE _OpBase_RemoveChild(t, p, op)
    IN IF ~t1.ok THEN t1
       ELSE [t1 EXCEPT !.parent[op] = NULL, !.children[op] = <<>>]


ExecutionPlan_RemoveOp(t, pl, op) ==
  IF ~t.ok THEN t
  ELSE
    LET t1 ==
          IF t.parent[op] = NULL
          THEN IF Len(t.children[op]) # 1 THEN [t EXCEPT !.ok = FALSE]
               ELSE [t EXCEPT !.root[pl] = t.children[op][1],
                              !.parent[t.children[op][1]] = NULL]
          ELSE LET p == t.parent[op] IN
               IF Len(t.children[op]) > 0
               THEN AddChildrenFrom(
                      _ExecutionPlan_ParentReplaceChild(
                         t, p, op, t.children[op][1]),
                      p, t.children[op], 2)
               ELSE _OpBase_RemoveChild(t, p, op)
    IN IF ~t1.ok THEN t1
       ELSE [t1 EXCEPT !.parent[op] = NULL, !.children[op] = <<>>]

\* variant: the original operation is not deleted
ReplaceOp_KeepsOriginal(t, pl, a, b) == ExecutionPlan_PushBelow(t, a, b)


ExecutionPlan_ReplaceOp(t, pl, a, b) ==
  ExecutionPlan_RemoveOp(ExecutionPlan_PushBelow(t, a, b), pl, a)

ExecutionPlan_DetachOp(t, op) ==
  IF t.parent[op] = NULL THEN t
  ELSE [_OpBase_RemoveChild(t, t.parent[op], op) EXCEPT !.parent[op] = NULL]

\* ----------------------------------------------------------------------
\* Tree search API (reads the state's children; never changes it)
\* ----------------------------------------------------------------------

RECURSIVE ExecutionPlan_LocateOpResolvingAlias(_, _)
RECURSIVE LocateOpResolvingAliasChildren(_, _, _)

\* for(i = from; i < childCount; i++): the first child call returning an op
LocateOpResolvingAliasChildren(r, i, alias) ==
  IF i > Len(children[r]) THEN NULL
  ELSE LET op == ExecutionPlan_LocateOpResolvingAlias(children[r][i], alias)
       IN IF op # NULL THEN op
          ELSE LocateOpResolvingAliasChildren(r, i + 1, alias)

ExecutionPlan_LocateOpResolvingAlias(r, alias) ==
  IF r = NULL THEN NULL
  ELSE IF alias \in modifies[r] THEN r
  ELSE LocateOpResolvingAliasChildren(r, 1, alias)
\* variant: every childless operator is a tap
IsTap_AnyLeaf(r) == Len(children[r]) = 0

\* root->childCount == 0 and op Argument isn't considered a tap
IsTap(r) == Len(children[r]) = 0 /\ type[r] # OPType_ARGUMENT


RECURSIVE _ExecutionPlan_LocateTaps(_, _)
RECURSIVE LocateTapsChildren(_, _, _)

LocateTapsChildren(r, i, taps) ==
  IF i > Len(children[r]) THEN taps
  ELSE LocateTapsChildren(r, i + 1,
                          _ExecutionPlan_LocateTaps(children[r][i], taps))

_ExecutionPlan_LocateTaps(r, taps) ==
  IF r = NULL THEN taps
  ELSE LocateTapsChildren(r, 1,
         IF IsTap(r) THEN Append(taps, r) ELSE taps)

ExecutionPlan_LocateTaps(pl) == _ExecutionPlan_LocateTaps(root[pl], <<>>)

\* first loop of ExecutionPlan_LocateOpMatchingType: does the type of r
\* equal types[i] for some i
RECURSIVE MatchesAnyType(_, _, _)
MatchesAnyType(r, types, i) ==
  IF i > Len(types) THEN FALSE
  ELSE IF type[r] = types[i] THEN TRUE
  ELSE MatchesAnyType(r, types, i + 1)

RECURSIVE ExecutionPlan_LocateOpMatchingType(_, _)
RECURSIVE LocateOpMatchingTypeChildren(_, _, _)
LocateOpMatchingTypeChildren(r, i, types) ==
  IF i > Len(children[r]) THEN NULL
  ELSE LET op == ExecutionPlan_LocateOpMatchingType(children[r][i], types)
       IN IF op # NULL THEN op
          ELSE LocateOpMatchingTypeChildren(r, i + 1, types)

ExecutionPlan_LocateOpMatchingType(r, types) ==
  IF MatchesAnyType(r, types, 1) THEN r
  ELSE LocateOpMatchingTypeChildren(r, 1, types)

ExecutionPlan_LocateOp(r, ty) ==
  IF r = NULL THEN NULL ELSE ExecutionPlan_LocateOpMatchingType(r, <<ty>>)

\* variant: the scan of the types goes on after a match
RECURSIVE AppendIfMatching_NoBreak(_, _, _, _)
AppendIfMatching_NoBreak(r, types, i, ops) ==
  IF i > Len(types) THEN ops
  ELSE AppendIfMatching_NoBreak(
         r, types, i + 1,
         IF type[r] = types[i] THEN Append(ops, r) ELSE ops)

\* first loop of _ExecutionPlan_CollectOpsMatchingType: append r at the
\* first types[i] equal to its type, then leave the loop
RECURSIVE AppendIfMatching(_, _, _, _)
AppendIfMatching(r, types, i, ops) ==
  IF i > Len(types) THEN ops
  ELSE IF type[r] = types[i] THEN Append(ops, r)
  ELSE AppendIfMatching(r, types, i + 1, ops)

RECURSIVE _ExecutionPlan_CollectOpsMatchingType(_, _, _)
RECURSIVE CollectOpsMatchingTypeChildren(_, _, _, _)
CollectOpsMatchingTypeChildren(r, i, types, ops) ==
  IF i > Len(children[r]) THEN ops
  ELSE CollectOpsMatchingTypeChildren(
         r, i + 1, types,
         _ExecutionPlan_CollectOpsMatchingType(children[r][i], types, ops))

_ExecutionPlan_CollectOpsMatchingType(r, types, ops) ==
  CollectOpsMatchingTypeChildren(r, 1, types, AppendIfMatching(r, types, 1, ops))

ExecutionPlan_CollectOpsMatchingType(r, types) ==
  _ExecutionPlan_CollectOpsMatchingType(r, types, <<>>)

ExecutionPlan_CollectOps(r, ty) ==
  _ExecutionPlan_CollectOpsMatchingType(r, <<ty>>, <<>>)

\* ----------------------------------------------------------------------
\* Scope and reference resolution
\* ----------------------------------------------------------------------
\* variant: only Aggregate stops the descent
DemarcatesScope_AggregateOnly(op) == type[op] = OPType_AGGREGATE

\* Project and Aggregate operations demarcate variable scopes
DemarcatesScope(op) ==
  type[op] = OPType_PROJECT \/ type[op] = OPType_AGGREGATE

RECURSIVE ExecutionPlan_BoundVariables(_, _)
RECURSIVE BoundVariablesChildren(_, _, _)

BoundVariablesChildren(op, i, modifiers) ==
  IF i > Len(children[op]) THEN modifiers
  ELSE BoundVariablesChildren(op, i + 1,
         ExecutionPlan_BoundVariables(children[op][i], modifiers))

\* variant: a scope-demarcating operator returns before inserting its own
BoundVariables_SkipsScopeOp(op, modifiers) ==
  IF DemarcatesScope(op) THEN modifiers
  ELSE BoundVariablesChildren(op, 1, modifiers \cup modifies[op])

\* the rax 'modifiers' after the call
ExecutionPlan_BoundVariables(op, modifiers) ==
  LET inserted == modifiers \cup modifies[op] IN
  IF DemarcatesScope(op) THEN inserted
  ELSE BoundVariablesChildren(op, 1, inserted)
\* variant: the latest resolving child replaces the earlier one
NextResolvingOp_KeepsChild(resolving_op, r, tmp_op) ==
  IF tmp_op # NULL THEN tmp_op ELSE resolving_op

\* resolving_op = resolving_op ? root : tmp_op
NextResolvingOp(resolving_op, r, tmp_op) ==
  IF resolving_op # NULL THEN r ELSE tmp_op
\* variant: the loop runs over every child
LoopContinues_NoEarlyExit(i, childCount, all_refs_resolved) ==
  i <= childCount

\* the children loop's condition: i < root->childCount && !all_refs_resolved
LoopContinues(i, childCount, all_refs_resolved) ==
  i <= childCount /\ ~all_refs_resolved

\* a call's outcome: the returned op, the rax refs_to_resolve afterwards, and
\* a trace of the call: the operators it was invoked on (visited), the
\* operators whose raxRemove succeeded (resolvers), the value each visited
\* child returned to this call (tmp_ops) and this call's refs_resolved flag
RECURSIVE ExecutionPlan_LocateReferencesExcludingOps(_, _, _, _)
RECURSIVE LocateReferencesChildren(_, _, _, _, _)

\* variant: a blacklisted op removes only the names it binds itself
ModifiesOf_DirectOnly(r, blacklisted) == modifies[r]

\* the names an op removes from the references: every variable bound in
\* the subtree of a blacklisted op, the op's own modifies otherwise
ModifiesOf(r, blacklisted) ==
  IF blacklisted THEN ExecutionPlan_BoundVariables(r, {}) ELSE modifies[r]

LocateReferencesChildren(r, i, recurse_limit, blacklisted_ops, acc) ==
  IF ~LoopContinues(i, Len(children[r]), acc.all_refs_resolved) THEN acc
  ELSE
    LET c == ExecutionPlan_LocateReferencesExcludingOps(
               children[r][i], recurse_limit, blacklisted_ops, acc.refs)
    IN LocateReferencesChildren(r, i + 1, recurse_limit, blacklisted_ops,
         [dependency_count |->
             acc.dependency_count + (IF c.op # NULL THEN 1 ELSE 0),
          resolving_op |-> NextResolvingOp(acc.resolving_op, r, c.op),
          all_refs_resolved |-> (c.refs = {}),
          refs |-> c.refs,
          visited |-> acc.visited \cup c.visited,
          resolvers |-> acc.resolvers \cup c.resolvers,
          tmp_ops |-> Append(acc.tmp_ops, c.op),
          entered |-> acc.entered \cup c.entered,
          removed |-> acc.removed \cup c.removed])

ExecutionPlan_LocateReferencesExcludingOps(r, recurse_limit, blacklisted_ops, refs_to_resolve) ==
  LET blacklisted == type[r] \in blacklisted_ops
      start == [dependency_count |-> 0, resolving_op |-> NULL,
                all_refs_resolved |-> FALSE, refs |-> refs_to_resolve,
                visited |-> {r}, resolvers |-> {}, tmp_ops |-> <<>>,
                entered |-> {<<r, refs_to_resolve>>}, removed |-> {}]
      acc == IF blacklisted = FALSE /\ r # recurse_limit
             THEN LocateReferencesChildren(r, 1, recurse_limit,
                                           blacklisted_ops, start)
             ELSE start
  IN
  IF acc.all_refs_resolved
  THEN [op |-> acc.resolving_op, refs |-> acc.refs,
        visited |-> acc.visited, resolvers |-> acc.resolvers,
        tmp_ops |-> acc.tmp_ops, refs_resolved |-> FALSE,
        entered |-> acc.entered, removed |-> acc.removed]
  ELSE
    LET mods == ModifiesOf(r, blacklisted)
        refs_resolved == (acc.refs \cap mods) # {}
    IN [op |-> IF refs_resolved THEN r ELSE acc.resolving_op,
        refs |-> acc.refs \ mods,
        visited |-> acc.visited,
        resolvers |-> IF refs_resolved THEN acc.resolvers \cup {r}
                      ELSE acc.resolvers,
        tmp_ops |-> acc.tmp_ops,
        refs_resolved |-> refs_resolved,
        entered |-> acc.entered,
        removed |-> acc.removed \cup {<<r, ref>> : ref \in acc.refs \cap mods}]

ExecutionPlan_LocateReferences(r, recurse_limit, refs_to_resolve) ==
  ExecutionPlan_LocateReferencesExcludingOps(r, recurse_limit, {},
                                             refs_to_resolve)

\* ----------------------------------------------------------------------
\* Initial plans
\* ----------------------------------------------------------------------

\* the elements of a set of operators in ascending order
RECURSIVE SortedSeq(_)
SortedSeq(S) ==
  IF S = {} THEN <<>>
  ELSE LET x == CHOOSE y \in S : \A z \in S : y <= z
       IN <<x>> \o SortedSeq(S \ {x})

RECURSIVE Reverse(_)
Reverse(s) == IF s = <<>> THEN <<>> ELSE Append(Reverse(Tail(s)), Head(s))

\* parent assignments of the drawn plans: every operator is attached under
\* an operator constructed before it, or is still unattached
\* the entities a query graph can hold
Entities == {"a", "b"}

\* QueryGraph_MergeGraphs(to, from): the entities of from are added to to;
\* an entity already in to is not added again
QueryGraph_MergeGraphs(to, from) == to \cup from

\* the owning plans and the query graphs as one value
Binding == [plan |-> plan, query_graph |-> query_graph]

\* variant: only the operator the call is given is bound, not its children
BindPlanToOps_RootOnly(b, pl, r) ==
  IF r = NULL THEN b
  ELSE [b EXCEPT !.query_graph[pl] =
                    QueryGraph_MergeGraphs(@, b.query_graph[b.plan[r]]),
                 !.plan[r] = pl]

RECURSIVE ExecutionPlan_BindPlanToOps(_, _, _)
RECURSIVE BindPlanToOpsChildren(_, _, _, _)
BindPlanToOpsChildren(b, pl, r, i) ==
  IF i > Len(children[r]) THEN b
  ELSE BindPlanToOpsChildren(
         ExecutionPlan_BindPlanToOps(b, pl, children[r][i]), pl, r, i + 1)

ExecutionPlan_BindPlanToOps(b, pl, r) ==
  IF r = NULL THEN b
  ELSE BindPlanToOpsChildren(
         [b EXCEPT !.query_graph[pl] =
                      QueryGraph_MergeGraphs(@, b.query_graph[b.plan[r]]),
                   !.plan[r] = pl],
         pl, r, 1)

\* the record mapping object of the calling plan (any value but NULL)
RecordMap == 1

\* bound_vars == NULL: the caller passes no bound variables
NoBoundVars == {}

\* no ExecutionPlan_BuildOpsFromPath call is in progress
NoBuild ==
  [bound_vars |-> NoBoundVars, match_stream_root |-> NULL, planned |-> <<>>]

\* nothing has been freed: no operation, no record mapping, no plan
NoneFreed == [ops |-> {}, record_maps |-> {}, plans |-> {}]

InitParents ==
  {f \in [Ops -> Ops \cup {NULL}] : \A o \in Ops : f[o] = NULL \/ f[o] < o}

\* a drawn plan: a forest whose children were added in ascending or in
\* descending order, of which one top operator (or none) is the plan's root
Init ==
  /\ parent \in InitParents
  /\ \E descending \in BOOLEAN :
       children = [o \in Ops |->
                     LET cs == SortedSeq({c \in Ops : parent[c] = o})
                     IN IF descending THEN Reverse(cs) ELSE cs]
  /\ \E r \in {NULL} \cup {o \in Ops : parent[o] = NULL} :
       root = [pl \in Plans |-> IF pl = "plan" THEN r ELSE NULL]
  /\ plan = [o \in Ops |-> "plan"]
  /\ aborted = FALSE
  /\ edits = 0
  /\ last = [call |-> "none", args |-> <<>>, result |-> NULL]
  /\ query_graph = [pl \in Plans |-> {}]
  /\ record_map = [pl \in Plans |-> IF pl = "plan" THEN RecordMap ELSE NULL]
  /\ freed = NoneFreed
  /\ pc = "idle"
  /\ build = NoBuild

\* ----------------------------------------------------------------------
\* Structural edits as steps
\* ----------------------------------------------------------------------

IsPlanRoot(o) == \E pl \in Plans : root[pl] = o

\* a call that ran to completion installs the structure it produced;
\* a failed ASSERT aborts and nothing more happens
Commit(t, call, args) ==
  /\ parent' = IF t.ok THEN t.parent ELSE parent
  /\ children' = IF t.ok THEN t.children ELSE children
  /\ root' = IF t.ok THEN t.root ELSE root
  /\ plan' = IF t.ok THEN t.plan ELSE plan
  /\ aborted' = ~t.ok
  /\ edits' = edits + 1
  /\ last' = [call |-> call, args |-> args, result |-> NULL]
  /\ UNCHANGED planVars

\* a drawn plan takes MaxEdits edits, a plan built from nothing MaxSeqEdits
CanEdit ==
  /\ ~aborted
  /\ pc \in {"idle", "editing"}
  /\ edits < (IF pc = "editing" THEN MaxSeqEdits ELSE MaxEdits)

AddOp ==
  /\ CanEdit
  /\ \E p \in Ops, newOp \in Ops :
       /\ parent[newOp] = NULL
       /\ ~IsPlanRoot(newOp)
       /\ newOp \notin AncestorsOrSelf(parent, p)
       /\ Commit(ExecutionPlan_AddOp(Tree, p, newOp), "add_op", <<p, newOp>>)

PushBelow ==
  /\ CanEdit
  /\ \E a \in Ops, b \in Ops :
       /\ parent[b] = NULL
       /\ ~IsPlanRoot(b)
       /\ b \notin AncestorsOrSelf(parent, a)
       /\ Commit(ExecutionPlan_PushBelow(Tree, a, b), "push_below", <<a, b>>)

UpdateRoot ==
  /\ CanEdit
  /\ \E new_root \in Ops :
       /\ ~IsPlanRoot(new_root)
       /\ Commit(ExecutionPlan_UpdateRoot(Tree, "plan", new_root),
                 "update_root", <<new_root>>)

ReplaceOp ==
  /\ CanEdit
  /\ \E a \in Ops, b \in Ops :
       /\ a # b
       /\ parent[b] = NULL
       /\ children[b] = <<>>
       /\ ~IsPlanRoot(b)
       /\ Commit(ExecutionPlan_ReplaceOp(Tree, plan[a], a, b),
                 "replace_op", <<a, b>>)

RemoveOp ==
  /\ CanEdit
  /\ \E op \in Ops :
       Commit(ExecutionPlan_RemoveOp(Tree, plan[op], op), "remove_op", <<op>>)

DetachOp ==
  /\ CanEdit
  /\ \E op \in Ops :
       Commit(ExecutionPlan_DetachOp(Tree, op), "detach_op", <<op>>)

Next ==
  \/ AddOp
  \/ PushBelow
  \/ UpdateRoot
  \/ ReplaceOp
  \/ RemoveOp
  \/ DetachOp

Spec == Init /\ [][Next]_vars

\* a plan built from nothing: no operator is attached and there is no root;
\* a run of edits follows
SeqInit ==
  /\ parent = [o \in Ops |-> NULL]
  /\ children = [o \in Ops |-> <<>>]
  /\ root = [pl \in Plans |-> NULL]
  /\ plan = [o \in Ops |-> "plan"]
  /\ aborted = FALSE
  /\ edits = 0
  /\ last = [call |-> "none", args |-> <<>>, result |-> NULL]
  /\ query_graph = [pl \in Plans |-> {}]
  /\ record_map = [pl \in Plans |-> IF pl = "plan" THEN RecordMap ELSE NULL]
  /\ freed = NoneFreed
  /\ pc = "editing"
  /\ build = NoBuild

SeqSpec == SeqInit /\ [][Next]_vars

\* ----------------------------------------------------------------------
\* Searches as steps: one search is made on the drawn plan; it records its
\* arguments and outcome in 'last' and leaves the plan untouched
\* ----------------------------------------------------------------------

\* the blacklists the searches are called with
Blacklists == {{}, {OPType_NODE_BY_LABEL_SCAN, OPType_PROJECT}}

CanSearch == ~aborted /\ last.call = "none" /\ pc = "idle"

Record(call, args, result) ==
  /\ last' = [call |-> call, args |-> args, result |-> result]
  /\ UNCHANGED <<parent, children, root, plan, aborted, edits>>
  /\ UNCHANGED planVars

LocateOpResolvingAlias ==
  /\ CanSearch
  /\ \E r \in Ops \cup {NULL}, alias \in Aliases :
      Record("locate_op_resolving_alias", <<r, alias>>,
             ExecutionPlan_LocateOpResolvingAlias(r, alias))

LocateTaps ==
  /\ CanSearch
  /\ \E pl \in Plans :
      Record("locate_taps", <<pl>>, ExecutionPlan_LocateTaps(pl))

BoundVariables ==
  /\ CanSearch
  /\ \E op \in Ops, modifiers \in {{}, {"m"}} :
      Record("bound_variables", <<op, modifiers>>,
             ExecutionPlan_BoundVariables(op, modifiers))

LocateReferencesExcludingOps ==
  /\ CanSearch
  /\ \E r \in Ops, blacklisted_ops \in Blacklists, refs \in SUBSET Aliases :
      \E recurse_limit \in {NULL} \cup SubtreeOf(parent, r) :
        Record("locate_references", <<r, recurse_limit, blacklisted_ops, refs>>,
               ExecutionPlan_LocateReferencesExcludingOps(
                  r, recurse_limit, blacklisted_ops, refs))

\* the arrays of types the searches are called with; some hold a type twice
TypeArrays ==
  { <<>>,
    <<OPType_NODE_BY_LABEL_SCAN>>,
    <<OPType_ARGUMENT, OPType_ARGUMENT>>,
    <<OPType_PROJECT, OPType_ARGUMENT, OPType_PROJECT>>,
    <<OPType_FILTER, OPType_AGGREGATE, OPType_FILTER>> }

LocateOpMatchingType ==
  /\ CanSearch
  /\ \E r \in Ops, types \in TypeArrays :
      Record("locate_op_matching_type", <<r, types>>,
             ExecutionPlan_LocateOpMatchingType(r, types))

LocateOp ==
  /\ CanSearch
  /\ \E r \in Ops \cup {NULL}, ty \in {OPType_ARGUMENT, OPType_AGGREGATE} :
      Record("locate_op", <<r, ty>>, ExecutionPlan_LocateOp(r, ty))

CollectOpsMatchingType ==
  /\ CanSearch
  /\ \E r \in Ops, types \in TypeArrays :
      Record("collect_ops_matching_type", <<r, types>>,
             ExecutionPlan_CollectOpsMatchingType(r, types))

CollectOps ==
  /\ CanSearch
  /\ \E r \in Ops, ty \in {OPType_ARGUMENT, OPType_AGGREGATE} :
      Record("collect_ops", <<r, ty>>, ExecutionPlan_CollectOps(r, ty))

SearchNext ==
  \/ LocateOpResolvingAlias
  \/ LocateTaps
  \/ BoundVariables
  \/ LocateReferencesExcludingOps
  \/ LocateOpMatchingType
  \/ LocateOp
  \/ CollectOpsMatchingType
  \/ CollectOps

SearchSpec == Init /\ [][SearchNext]_vars

\* ----------------------------------------------------------------------
\* Binding operators to a plan as a step: the operators of a drawn forest
\* belong to either plan and each plan has a query graph of its own
\* ----------------------------------------------------------------------

BindInit ==
  /\ parent \in InitParents
  /\ children = [o \in Ops |-> SortedSeq({c \in Ops : parent[c] = o})]
  /\ root = [pl \in Plans |-> NULL]
  /\ plan \in [Ops -> Plans]
  /\ aborted = FALSE
  /\ edits = 0
  /\ last = [call |-> "none", args |-> <<>>, result |-> NULL]
  /\ \E h \in {{"b"}, {"a", "b"}} :
       query_graph = [pl \in Plans |-> IF pl = "plan" THEN {"a"} ELSE h]
  /\ record_map = [pl \in Plans |-> IF pl = "plan" THEN RecordMap ELSE NULL]
  /\ freed = NoneFreed
  /\ pc = "idle"
  /\ build = NoBuild

BindPlanToOps ==
  /\ last.call = "none"
  /\ \E pl \in Plans, r \in Ops \cup {NULL} :
       LET b == ExecutionPlan_BindPlanToOps(Binding, pl, r) IN
       /\ plan' = b.plan
       /\ query_graph' = b.query_graph
       /\ last' = [call |-> "bind_plan_to_ops", args |-> <<pl, r>>,
                   result |-> NULL]
       /\ UNCHANGED <<parent, children, root, aborted, edits,
                      record_map, freed, pc, build>>

BindNext == BindPlanToOps

BindSpec == BindInit /\ [][BindNext]_vars

\* ----------------------------------------------------------------------
\* ExecutionPlan_BuildOpsFromPath step by step.  The operators of the
\* arena have not been used yet; the planning step takes the ones it
\* builds from them.
\* ----------------------------------------------------------------------

\* NewArgumentOp(match_stream_plan, bound_vars): the Argument operation of
\* the arena, whose modifies are the bound variables
NewArgumentOp == CHOOSE o \in Ops : type[o] = OPType_ARGUMENT

\* QueryGraph_ExtractPatterns(plan->query_graph, &pattern, 1): the entities
\* of the pattern, a part of the graph it is given
QueryGraph_ExtractPatterns(qg) == SUBSET qg

\* ExecutionPlan_Free(pl): what is freed with the plan: the plan itself,
\* the operations under its root and its record mapping, where it has them
ExecutionPlan_Free(pl) ==
  [ops |-> IF root[pl] = NULL THEN {} ELSE SubtreeOf(parent, root[pl]),
   record_maps |-> IF record_map[pl] = NULL THEN {} ELSE {record_map[pl]},
   plans |-> {pl}]

\* variant: the shared record mapping is not NULL-set
NullSetRecordMap_KeepsShared(rm) == rm

\* match_stream_plan->record_map = NULL
NullSetRecordMap(rm) == [rm EXCEPT !["match_stream_plan"] = NULL]

BuildInit ==
  /\ parent = [o \in Ops |-> NULL]
  /\ children = [o \in Ops |-> <<>>]
  /\ root = [pl \in Plans |-> NULL]
  /\ plan = [o \in Ops |-> "plan"]
  /\ aborted = FALSE
  /\ edits = 0
  /\ last = [call |-> "none", args |-> <<>>, result |-> NULL]
  /\ query_graph = [pl \in Plans |-> IF pl = "plan" THEN {"a", "b"} ELSE {}]
  /\ record_map = [pl \in Plans |-> IF pl = "plan" THEN RecordMap ELSE NULL]
  /\ freed = NoneFreed
  /\ pc = "new_plan"
  /\ \E bound_vars \in {NoBoundVars, modifies[NewArgumentOp]} :
       build = [NoBuild EXCEPT !.bound_vars = bound_vars]

\* the operations the fragment's plan holds
InFragment == IF root["match_stream_plan"] = NULL THEN {}
              ELSE SubtreeOf(parent, root["match_stream_plan"])

\* lines 372-378: the empty plan shares the record mapping; with bound
\* variables its root is an Argument operation
BuildNewPlan ==
  /\ pc = "new_plan"
  /\ record_map' = [record_map EXCEPT
                      !["match_stream_plan"] = record_map["plan"]]
  /\ IF build.bound_vars # NoBoundVars
     THEN /\ root' = [root EXCEPT !["match_stream_plan"] = NewArgumentOp]
          /\ plan' = [plan EXCEPT ![NewArgumentOp] = "match_stream_plan"]
     ELSE UNCHANGED <<root, plan>>
  /\ pc' = "query_graph"
  /\ UNCHANGED <<parent, children, aborted, edits, last, query_graph,
                 freed, build>>

\* lines 396-402: the fragment's query graph is extracted from the plan's
BuildQueryGraph ==
  /\ pc = "query_graph"
  /\ \E sub_qg \in QueryGraph_ExtractPatterns(query_graph["plan"]) :
       query_graph' = [query_graph EXCEPT !["match_stream_plan"] = sub_qg]
  /\ pc' = "populate"
  /\ UNCHANGED <<parent, children, root, plan, aborted, edits, last,
                 record_map, freed, build>>

\* line 404, ExecutionPlan_PopulateExecutionPlan: the planning step builds
\* a new operation under one that is not yet in the fragment ...
PopulateAddOp ==
  /\ pc = "populate"
  /\ ~aborted
  /\ \E p \in Ops \ InFragment, newOp \in Ops \ InFragment :
       /\ p # newOp
       /\ parent[newOp] = NULL
       /\ children[newOp] = <<>>
       /\ p # NewArgumentOp /\ newOp # NewArgumentOp
       /\ LET t == ExecutionPlan_AddOp(
                     [Tree EXCEPT !.plan[p] = "match_stream_plan",
                                  !.plan[newOp] = "match_stream_plan"],
                     p, newOp)
          IN /\ parent' = t.parent
             /\ children' = t.children
             /\ plan' = t.plan
  /\ UNCHANGED <<root, aborted, edits, last, planVars>>

\* ... or installs what it built as the fragment's root
PopulateUpdateRoot ==
  /\ pc = "populate"
  /\ ~aborted
  /\ \E new_root \in Ops \ InFragment :
       /\ new_root # NewArgumentOp
       /\ parent[new_root] = NULL
       /\ LET t == ExecutionPlan_UpdateRoot(
                     [Tree EXCEPT !.plan[new_root] = "match_stream_plan"],
                     "match_stream_plan", new_root)
          IN /\ parent' = IF t.ok THEN t.parent ELSE parent
             /\ children' = IF t.ok THEN t.children ELSE children
             /\ root' = IF t.ok THEN t.root ELSE root
             /\ plan' = IF t.ok THEN t.plan ELSE plan
             /\ aborted' = ~t.ok
             /\ build' = IF t.ok
                         THEN [build EXCEPT !.planned = Append(@, new_root)]
                         ELSE build
  /\ UNCHANGED <<edits, last, query_graph, record_map, freed, pc>>

\* ... and returns
PopulateReturn ==
  /\ pc = "populate"
  /\ ~aborted
  /\ pc' = "bind"
  /\ UNCHANGED <<parent, children, root, plan, aborted, edits, last,
                 query_graph, record_map, freed, build>>

\* lines 409-411: the fragment's operations are bound to the calling plan
BuildBind ==
  /\ pc = "bind"
  /\ LET match_stream_root == root["match_stream_plan"]
         b == ExecutionPlan_BindPlanToOps(Binding, "plan", match_stream_root)
     IN /\ build' = [build EXCEPT !.match_stream_root = match_stream_root]
        /\ plan' = b.plan
        /\ query_graph' = b.query_graph
  /\ pc' = "null_set"
  /\ UNCHANGED <<parent, children, root, aborted, edits, last,
                 record_map, freed>>

\* lines 413-415: what the two plans share is NULL-set
BuildNullSet ==
  /\ pc = "null_set"
  /\ root' = [root EXCEPT !["match_stream_plan"] = NULL]
  /\ record_map' = NullSetRecordMap(record_map)
  /\ pc' = "free"
  /\ UNCHANGED <<parent, children, plan, aborted, edits, last,
                 query_graph, freed, build>>

\* lines 416-419: the temporary plan is freed and the root is returned
BuildFree ==
  /\ pc = "free"
  /\ freed' = LET f == ExecutionPlan_Free("match_stream_plan")
              IN [ops |-> freed.ops \cup f.ops,
                  record_maps |-> freed.record_maps \cup f.record_maps,
                  plans |-> freed.plans \cup f.plans]
  /\ pc' = "done"
  /\ last' = [call |-> "build_ops_from_path", args |-> <<build.bound_vars>>,
              result |-> build.match_stream_root]
  /\ UNCHANGED <<parent, children, root, plan, aborted, edits,
                 query_graph, record_map, build>>

BuildNext ==
  \/ BuildNewPlan
  \/ BuildQueryGraph
  \/ PopulateAddOp
  \/ PopulateUpdateRoot
  \/ PopulateReturn
  \/ BuildBind
  \/ BuildNullSet
  \/ BuildFree

BuildSpec == BuildInit /\ [][BuildNext]_vars

\* ----------------------------------------------------------------------
\* Properties of the structural edits (checked under Spec)
\* ----------------------------------------------------------------------

\* the operators of the tree hanging from plan->root
PlanTree == SubtreeOf(parent, root["plan"])

\* C1: after push_below(a, b) on an operator a of the plan's tree, b has a's
\* former parent (b is the plan root, parentless, when a was the root), a's
\* parent is b, b sits at the child index a occupied and every other child
\* of the former parent keeps its position.
C1_PushBelowTakesPosition ==
  [][(last'.call = "push_below" /\ last'.args[1] \in PlanTree) =>
       LET a == last'.args[1]
           b == last'.args[2]
           p == parent[a]
       IN /\ ~aborted'
          /\ parent'[b] = p
          /\ parent'[a] = b
          /\ a \in SeqToSet(children'[b])
          /\ p = NULL => root'["plan"] = b
          /\ p # NULL =>
               /\ Len(children'[p]) = Len(children[p])
               /\ \A i \in 1..Len(children[p]) :
                    children'[p][i] =
                      IF children[p][i] = a THEN b ELSE children[p][i]
    ]_vars

\* C1 witness: a push_below has put b in front of a sibling, between a and
\* a's former parent, inside the plan's tree.
C1_Witness ==
  /\ last.call = "push_below"
  /\ ~aborted
  /\ LET a == last.args[1]
         b == last.args[2]
     IN /\ parent[a] = b
        /\ b \in PlanTree
        /\ parent[b] # NULL
        /\ Len(children[parent[b]]) >= 2
        /\ children[parent[b]][1] = b

\* C2: remove_op on an operator with a parent and k children changes the
\* parent's child count by k - 1, puts op's first child at op's index,
\* appends op's other children after the parent's previous children in
\* their order, makes the parent the parent of every promoted child and
\* leaves op without parent and children.
C2_RemoveOpPromotesChildren ==
  [][(last'.call = "remove_op" /\ parent[last'.args[1]] # NULL) =>
       LET op == last'.args[1]
           p == parent[op]
           cs == children[op]
           k == Len(cs)
           i == IndexOf(children[p], op)
       IN /\ ~aborted'
          /\ Len(children'[p]) = Len(children[p]) + k - 1
          /\ k > 0 =>
               children'[p] =
                 [children[p] EXCEPT ![i] = cs[1]] \o SubSeq(cs, 2, k)
          /\ k = 0 => op \notin SeqToSet(children'[p])
          /\ \A j \in 1..k : parent'[cs[j]] = p
          /\ parent'[op] = NULL
          /\ children'[op] = <<>>
    ]_vars

\* C2 witness: the first edit of a drawn plan was a remove_op that left a
\* parent with children <<c, d, c + 1>>, d the largest.  Drawn plans have
\* sorted children and every child is larger than its parent, so this is
\* only reached by removing an operator with two children <<d, c + 1>>
\* that stood behind its sibling c: d took its place, c + 1 was appended.
C2_Witness ==
  /\ last.call = "remove_op"
  /\ ~aborted
  /\ edits = 1
  /\ parent[last.args[1]] = NULL
  /\ children[last.args[1]] = <<>>
  /\ \E p \in Ops :
       /\ Len(children[p]) = 3
       /\ children[p][3] = children[p][1] + 1
       /\ children[p][2] > children[p][3]

\* some operator on the chain o, children[0] of o, ... has several children
RECURSIVE ChainBranches(_, _)
ChainBranches(ch, o) ==
  \/ Len(ch[o]) > 1
  \/ Len(ch[o]) = 1 /\ ChainBranches(ch, ch[o][1])

\* C3: new_root(old_root, new_root), reached through update_root on a plan
\* that has a root, fails fatally and attaches nothing whenever an operator
\* on new_root's first-child chain has more than one child.
C3_NewRootRejectsBranchingChain ==
  [][(/\ last'.call = "update_root"
      /\ root["plan"] # NULL
      /\ ChainBranches(children, last'.args[1]))
       => (aborted' /\ parent' = parent /\ children' = children)
    ]_vars

\* ----------------------------------------------------------------------
\* Properties of the searches (checked under SearchSpec)
\* ----------------------------------------------------------------------

\* C4: locate_op_resolving_alias returns none exactly when no operator of
\* the subtree binds the alias, and otherwise an operator binding it such
\* that no binding operator of the subtree is strictly shallower.
C4_ReturnsMinimumDepthResolver ==
  last.call = "locate_op_resolving_alias" =>
    LET r == last.args[1]
        alias == last.args[2]
        res == last.result
        binders == {o \in SubtreeOf(parent, r) : alias \in modifies[o]}
    IN /\ (res = NULL) <=> (binders = {})
       /\ res # NULL =>
            /\ res \in binders
            /\ \A o \in binders : Depth(parent, o) >= Depth(parent, res)

\* f -> p -> s is a chain Filter -> Project -> Scan in which only the Scan
\* binds n
IsFilterProjectScan(f, p, s) ==
  /\ type[f] = OPType_FILTER
  /\ type[p] = OPType_PROJECT
  /\ type[s] = OPType_NODE_BY_LABEL_SCAN
  /\ children[f] = <<p>>
  /\ children[p] = <<s>>
  /\ children[s] = <<>>
  /\ "n" \in modifies[s]
  /\ "n" \notin modifies[f] \cup modifies[p]

\* C5 as stated: in the chain Filter -> Project -> Scan where only Scan
\* binds n, bound_variables started at Filter (on an empty set) includes n,
\* and started at Project yields only Project's own bindings.
C5_FilterSeesScanBinding ==
  (last.call = "bound_variables" /\ last.args[2] = {}) =>
    \A f, p, s \in Ops :
      IsFilterProjectScan(f, p, s) =>
        /\ last.args[1] = f => "n" \in last.result
        /\ last.args[1] = p => last.result = modifies[p]

\* C5 amended: in that chain, bound_variables started at Filter yields
\* exactly Filter's and Project's own bindings, so it does not include n;
\* started at Project it yields only Project's own bindings.
C5_FilterStopsAtProject ==
  (last.call = "bound_variables" /\ last.args[2] = {}) =>
    \A f, p, s \in Ops :
      IsFilterProjectScan(f, p, s) =>
        /\ last.args[1] = f =>
             /\ last.result = modifies[f] \cup modifies[p]
             /\ "n" \notin last.result
        /\ last.args[1] = p => last.result = modifies[p]

\* C5 witness: bound_variables was started at the Filter of such a chain.
C5_Witness ==
  /\ last.call = "bound_variables"
  /\ last.args[2] = {}
  /\ \E f, p, s \in Ops :
       IsFilterProjectScan(f, p, s) /\ last.args[1] = f

\* the operators of start's subtree that have no projection or aggregation
\* strictly above them inside that subtree
NotBelowScope(start) ==
  {o \in SubtreeOf(parent, start) :
     \A x \in (AncestorsOrSelf(parent, o) \ {o}) \cap SubtreeOf(parent, start) :
        type[x] \notin {OPType_PROJECT, OPType_AGGREGATE}}

IsFirstChild(o) == parent[o] # NULL /\ children[parent[o]][1] = o

\* r and the operators reached from r through first children only, never
\* stepping down from a blacklisted operator or from recurse_limit
FirstChildChain(r, recurse_limit, blacklisted_ops) ==
  {o \in SubtreeOf(parent, r) :
     \A x \in (AncestorsOrSelf(parent, o) \cap SubtreeOf(parent, r)) \ {r} :
        /\ IsFirstChild(x)
        /\ type[parent[x]] \notin blacklisted_ops
        /\ parent[x] # recurse_limit}

\* C7 as stated: locate_references called with an empty refs set returns
\* none without traversing the root's children or any deeper operator.
C7_EmptyRefsVisitsNothing ==
  (last.call = "locate_references" /\ last.args[4] = {}) =>
    /\ last.result.op = NULL
    /\ last.result.visited \subseteq {last.args[1]}

\* C7 amended: locate_references called with an empty refs set returns none
\* and leaves refs empty, and it traverses exactly the root and the chain of
\* first children below it, down to the first operator that is childless,
\* blacklisted or the recurse_limit; no other child is traversed.
C7_EmptyRefsVisitsFirstChildChain ==
  (last.call = "locate_references" /\ last.args[4] = {}) =>
    /\ last.result.op = NULL
    /\ last.result.refs = {}
    /\ last.result.resolvers = {}
    /\ last.result.visited =
         FirstChildChain(last.args[1], last.args[2], last.args[3])

\* C7 witness: with empty refs the call went down two levels below a root
\* that has a second child, which was not traversed.
C7_Witness ==
  /\ last.call = "locate_references"
  /\ last.args[4] = {}
  /\ Len(children[last.args[1]]) >= 2
  /\ Cardinality(last.result.visited) >= 3
  /\ children[last.args[1]][2] \notin last.result.visited

\* positions of the visited children that returned a resolver to the call
ResolvingChildren(res) ==
  {i \in 1..Len(res.tmp_ops) : res.tmp_ops[i] # NULL}

\* C8: when exactly one child of the operator resolved references and the
\* operator's own bindings resolved none, the call returns what that child
\* returned, wherever the child stands among its siblings.
C8_SingleResolvingChildPropagated ==
  last.call = "locate_references" =>
    LET res == last.result
        rc == ResolvingChildren(res)
    IN (Cardinality(rc) = 1 /\ ~res.refs_resolved) =>
          \A i \in rc : res.op = res.tmp_ops[i]

\* C9: the operator returned by locate_references is an ancestor-or-self of
\* every operator whose bindings removed a name from refs during the call,
\* and when two different children each resolved part of refs the operator
\* the call was made on is returned.
C9_ResolverIsCommonAncestor ==
  last.call = "locate_references" =>
    LET res == last.result
        r == last.args[1]
    IN /\ \A o \in res.resolvers :
            res.op # NULL /\ res.op \in AncestorsOrSelf(parent, o)
       /\ Cardinality(ResolvingChildren(res)) >= 2 => res.op = r

\* C9 witness: two children of the operator each removed a name and the
\* operator itself removed none.
C9_Witness ==
  /\ last.call = "locate_references"
  /\ Cardinality(ResolvingChildren(last.result)) >= 2
  /\ ~last.result.refs_resolved
  /\ Cardinality(last.result.resolvers) >= 2
  /\ last.result.op = last.args[1]

\* C10: locate_taps returns every childless operator of the plan's tree
\* that is not an Argument exactly once, returns no Argument and no operator
\* that has children, and returns the empty sequence for a rootless plan.
C10_LocateTapsExactlyLeaves ==
  last.call = "locate_taps" =>
    LET taps == last.result
        tree == SubtreeOf(parent, root[last.args[1]])
    IN /\ \A o \in tree :
            (children[o] = <<>> /\ type[o] # OPType_ARGUMENT) =>
               Cardinality({i \in 1..Len(taps) : taps[i] = o}) = 1
       /\ \A i \in 1..Len(taps) :
            /\ taps[i] \in tree
            /\ children[taps[i]] = <<>>
            /\ type[taps[i]] # OPType_ARGUMENT
       /\ root[last.args[1]] = NULL => taps = <<>>

\* C10 witness: the plan's tree has a childless Argument and two other
\* childless operators, and an operator with children.
C10_Witness ==
  /\ last.call = "locate_taps"
  /\ Len(last.result) >= 2
  /\ \E o \in SubtreeOf(parent, root[last.args[1]]) :
       children[o] = <<>> /\ type[o] = OPType_ARGUMENT

\* ----------------------------------------------------------------------
\* Further properties of the structural edits (checked under Spec)
\* ----------------------------------------------------------------------

\* o is listed exactly once in the children array cs
ListedOnce(cs, o) ==
  Cardinality({i \in 1..Len(cs) : cs[i] = o}) = 1

\* the operators reachable by following the children arrays ch
RECURSIVE ReachableFrom(_, _, _)
ReachableFrom(ch, seen, frontier) ==
  IF frontier \subseteq seen THEN seen
  ELSE ReachableFrom(ch, seen \cup frontier,
                     UNION {SeqToSet(ch[o]) : o \in frontier})

\* what is reachable from the root r is a well-formed tree: r has no
\* parent, every other reachable operator is listed exactly once, in the
\* children of exactly one operator, which is its parent, and following
\* parents from it ends at r
WellFormedTree(par, ch, r) ==
  r # NULL =>
    LET reach == ReachableFrom(ch, {}, {r})
    IN /\ par[r] = NULL
       /\ \A o \in reach \ {r} :
            /\ par[o] \in reach
            /\ \A p \in Ops :
                 IF p = par[o] THEN ListedOnce(ch[p], o)
                 ELSE o \notin SeqToSet(ch[p])
       /\ \A o \in reach : r \in AncestorsOrSelf(par, o)

\* C11: on a well-formed plan, replace_op(plan, a, b), b parentless and
\* childless, a the plan root or an operator with a parent: b ends at a's
\* former position (same parent and child index, or plan root), a's former
\* children are b's children in their order, a has no parent and no
\* children, nothing else moves; this is the tree push_below(a, b)
\* followed by remove_op(plan, a) produces.
C11_ReplaceOpTakesPositionAndChildren ==
  [][(/\ last'.call = "replace_op"
      /\ WellFormedTree(parent, children, root["plan"])
      /\ (parent[last'.args[1]] # NULL \/ root["plan"] = last'.args[1]))
       =>
       LET a == last'.args[1]
           b == last'.args[2]
           p == parent[a]
           cs == children[a]
       IN /\ ~aborted'
          /\ parent' = [o \in Ops |->
                          IF o = b THEN p
                          ELSE IF o = a THEN NULL
                          ELSE IF o \in SeqToSet(cs) THEN b
                          ELSE parent[o]]
          /\ children' = [o \in Ops |->
                            IF o = b THEN cs
                            ELSE IF o = a THEN <<>>
                            ELSE IF o = p
                            THEN [i \in 1..Len(children[p]) |->
                                    IF children[p][i] = a THEN b
                                    ELSE children[p][i]]
                            ELSE children[o]]
          /\ root'["plan"] = IF root["plan"] = a THEN b ELSE root["plan"]
    ]_vars

\* C11 witness: a replace_op left b, childless and parentless before the
\* call, under a parent and with two children, inside the plan's tree.
C11_Witness ==
  /\ last.call = "replace_op"
  /\ ~aborted
  /\ LET a == last.args[1]
         b == last.args[2]
     IN /\ parent[b] # NULL
        /\ b \in PlanTree
        /\ Len(children[b]) >= 2
        /\ parent[a] = NULL
        /\ children[a] = <<>>

\* C12: remove_op on the root of a well-formed plan with exactly one child
\* makes the child the plan root with no parent and clears op; on a plan
\* root with another number of children it fails fatally and plan.root
\* stays.
C12_RemoveRootNeedsOneChild ==
  [][(/\ last'.call = "remove_op"
      /\ root["plan"] = last'.args[1]
      /\ WellFormedTree(parent, children, root["plan"])) =>
       LET op == last'.args[1] IN
       IF Len(children[op]) = 1
       THEN /\ ~aborted'
            /\ root'["plan"] = children[op][1]
            /\ parent'[children[op][1]] = NULL
            /\ parent'[op] = NULL
            /\ children'[op] = <<>>
       ELSE /\ aborted'
            /\ root' = root
            /\ parent' = parent
            /\ children' = children
    ]_vars

\* C12 witness: remove_op was called on a plan root with two or more
\* children and failed.
C12_Witness ==
  /\ last.call = "remove_op"
  /\ aborted
  /\ root["plan"] = last.args[1]
  /\ Len(children[last.args[1]]) >= 2

\* every operator of the chain o, children[0] of o, ... has at most one child
IsLinearChain(ch, o) == ~ChainBranches(ch, o)

\* C17: update_root(plan, new_root) on a well-formed plan, new_root the
\* parentless head of a linear chain: plan.root is new_root afterwards; a
\* former root is now the last child of the deepest first-child descendant
\* of new_root, with that operator as parent and its own subtree unchanged;
\* with no former root no parent and no children change.
C17_UpdateRootGraftsOldRoot ==
  [][(/\ last'.call = "update_root"
      /\ WellFormedTree(parent, children, root["plan"])
      /\ parent[last'.args[1]] = NULL
      /\ IsLinearChain(children, last'.args[1]))
       =>
       LET new_root == last'.args[1]
           old == root["plan"]
           tail == CHOOSE o \in SubtreeOf(parent, new_root) : children[o] = <<>>
       IN /\ ~aborted'
          /\ root'["plan"] = new_root
          /\ old = NULL => (parent' = parent /\ children' = children)
          /\ old # NULL =>
               /\ children'[tail] = <<old>>
               /\ children'[tail][Len(children'[tail])] = old
               /\ parent'[old] = tail
               /\ tail \in SubtreeOf(parent', new_root)
               /\ \A o \in Ops \ {tail} : children'[o] = children[o]
               /\ \A o \in Ops \ {old} : parent'[o] = parent[o]
    ]_vars

\* C17 witness: the first edit of a drawn plan was an update_root that put
\* a former root with children of its own under the end of a chain of two
\* operators; the former root is older than its new parent, which no drawn
\* plan has.
C17_Witness ==
  /\ last.call = "update_root"
  /\ ~aborted
  /\ edits = 1
  /\ root["plan"] = last.args[1]
  /\ \E old \in Ops :
       /\ parent[old] # NULL
       /\ parent[old] > old
       /\ parent[parent[old]] = last.args[1]
       /\ children[parent[old]] = <<old>>
       /\ children[old] # <<>>

\* ----------------------------------------------------------------------
\* Searches by operator type (checked under SearchSpec)
\* ----------------------------------------------------------------------

\* o comes before o2 in the pre-order walk below r: o is a proper ancestor
\* of o2, or the two lie under different children of a common ancestor and
\* the child leading to o has the smaller index
PreOrderBefore(o, o2) ==
  \/ (o # o2 /\ o \in AncestorsOrSelf(parent, o2))
  \/ \E c \in AncestorsOrSelf(parent, o), c2 \in AncestorsOrSelf(parent, o2) :
       /\ c # c2
       /\ parent[c] # NULL
       /\ parent[c] = parent[c2]
       /\ IndexOf(children[parent[c]], c) < IndexOf(children[parent[c]], c2)

\* C16: collect_ops_matching_any returns exactly the operators of the
\* subtree whose kind is among the given kinds, each once even when a kind
\* is given twice, in pre-order (the empty sequence when none matches);
\* locate_op_matching_any returns the first of them, none when there is none.
C16_CollectAndLocateByType ==
  /\ last.call \in {"collect_ops_matching_type", "collect_ops"} =>
       LET r == last.args[1]
           kinds == IF last.call = "collect_ops" THEN {last.args[2]}
                    ELSE SeqToSet(last.args[2])
           res == last.result
       IN /\ SeqToSet(res) = {o \in SubtreeOf(parent, r) : type[o] \in kinds}
          /\ \A i, j \in 1..Len(res) : i < j => PreOrderBefore(res[i], res[j])
          /\ Len(res) = Cardinality(SeqToSet(res))
  /\ last.call = "locate_op_matching_type" =>
       LET all == ExecutionPlan_CollectOpsMatchingType(last.args[1], last.args[2])
       IN last.result = IF all = <<>> THEN NULL ELSE all[1]
  /\ (last.call = "locate_op" /\ last.args[1] # NULL) =>
       LET all == ExecutionPlan_CollectOps(last.args[1], last.args[2])
       IN last.result = IF all = <<>> THEN NULL ELSE all[1]

\* C16 witness: a collection by an array holding one kind twice returned
\* two operators of that kind, the second one not under the first.
C16_Witness ==
  /\ last.call = "collect_ops_matching_type"
  /\ last.args[2] = <<OPType_PROJECT, OPType_ARGUMENT, OPType_PROJECT>>
  /\ Len(last.result) = 2
  /\ type[last.result[2]] = OPType_PROJECT
  /\ last.result[1] \notin AncestorsOrSelf(parent, last.result[2])
  /\ last.args[1] \notin SeqToSet(last.result)

\* ----------------------------------------------------------------------
\* Blacklisted operators and the recursion limit (checked under SearchSpec)
\* ----------------------------------------------------------------------

\* the references still unresolved when the search entered operator o
RefsOnEntry(res, o) == (CHOOSE e \in res.entered : e[1] = o)[2]

\* the names the search removed at operator o
RemovedAt(res, o) == {e[2] : e \in {x \in res.removed : x[1] = o}}

\* C20: in locate_references with a blacklist and a recurse_limit, a
\* blacklisted operator removes exactly the unresolved names that
\* bound_variables computes over its subtree and is itself their resolver;
\* no proper descendant of a blacklisted operator or of recurse_limit is
\* visited or returned; recurse_limit's own binds are still removed.
C20_BlacklistedOpIsAtomic ==
  last.call = "locate_references" =>
    LET recurse_limit == last.args[2]
        blacklisted_ops == last.args[3]
        res == last.result
        stops == {o \in res.visited :
                    type[o] \in blacklisted_ops \/ o = recurse_limit}
    IN /\ \A o \in stops : SubtreeOf(parent, o) \cap res.visited = {o}
       /\ res.resolvers \subseteq res.visited
       /\ res.op \in res.visited \cup {NULL}
       /\ {e[1] : e \in res.removed} \subseteq res.visited
       /\ \A o \in res.visited :
            type[o] \in blacklisted_ops =>
              /\ RemovedAt(res, o) =
                   RefsOnEntry(res, o) \cap ExecutionPlan_BoundVariables(o, {})
              /\ RemovedAt(res, o) # {} => o \in res.resolvers
              /\ (RemovedAt(res, o) # {} /\ o = last.args[1]) => res.op = o
       /\ (recurse_limit \in res.visited
             /\ type[recurse_limit] \notin blacklisted_ops) =>
            RemovedAt(res, recurse_limit) =
              RefsOnEntry(res, recurse_limit) \cap modifies[recurse_limit]

\* C20 witness: below the start operator the search met a blacklisted
\* operator with children and removed there a name that only a descendant
\* of it binds, and it also met the recurse_limit, which is not
\* blacklisted, and removed a name the recurse_limit binds.
C20_Witness ==
  /\ last.call = "locate_references"
  /\ LET recurse_limit == last.args[2]
         blacklisted_ops == last.args[3]
         res == last.result
     IN /\ \E o \in res.visited \ {last.args[1]} :
             /\ type[o] \in blacklisted_ops
             /\ children[o] # <<>>
             /\ RemovedAt(res, o) \ modifies[o] # {}
        /\ recurse_limit # NULL
        /\ recurse_limit \in res.visited
        /\ type[recurse_limit] \notin blacklisted_ops
        /\ RemovedAt(res, recurse_limit) # {}

\* ----------------------------------------------------------------------
\* Runs of edits on a plan built from nothing (checked under SeqSpec)
\* ----------------------------------------------------------------------

\* the operator an edit introduces: newOp of add_op, b of push_below and
\* replace_op, new_root of update_root; remove_op and detach_op have none
Introduced(call, args) ==
  IF call \in {"add_op", "push_below", "replace_op"} THEN {args[2]}
  ELSE IF call = "update_root" THEN {args[1]}
  ELSE {}

\* C18: starting from a well-formed plan, every add_op, push_below,
\* replace_op, remove_op, detach_op or update_root call that does not fail
\* and introduces only a parentless operator from outside the tree leaves
\* what is reachable from plan.root a well-formed tree: the root has no
\* parent, every other reachable operator is listed exactly once, in the
\* children of exactly one operator, which is its parent, and there is no
\* cycle.  Holding for each such step, it holds after any run of them.
C18_EditsKeepTreeWellFormed ==
  [][(/\ pc = "editing"
      /\ ~aborted'
      /\ WellFormedTree(parent, children, root["plan"])
      /\ \A o \in Introduced(last'.call, last'.args) :
           /\ parent[o] = NULL
           /\ o \notin ReachableFrom(children, {}, {root["plan"]} \ {NULL}))
       => WellFormedTree(parent', children', root'["plan"])]_vars

\* C18 witness: after MaxSeqEdits edits the plan has a root with two
\* children and an operator that was detached with a child of its own.
C18_Witness ==
  /\ pc = "editing"
  /\ ~aborted
  /\ edits = MaxSeqEdits
  /\ root["plan"] # NULL
  /\ Len(children[root["plan"]]) >= 1
  /\ last.call = "detach_op"
  /\ parent[last.args[1]] = NULL
  /\ root["plan"] # last.args[1]

\* C19: push_below(a, b) and remove_op(plan, op) reassign plan.root only
\* when a / op is the plan's current root; for any other operator
\* plan.root stays as it was.
C19_RootReassignedOnlyForRoot ==
  [][(/\ pc = "editing"
      /\ last'.call \in {"push_below", "remove_op"}
      /\ ~aborted'
      /\ root["plan"] # last'.args[1])
       => root'["plan"] = root["plan"]]_vars

\* ----------------------------------------------------------------------
\* Binding a subtree to a plan (checked under BindSpec)
\* ----------------------------------------------------------------------

\* C13: after bind_plan_to_ops(plan, root) every operator of the subtree of
\* root is owned by plan and plan's query graph holds every entity of the
\* query graphs of the operators' former plans; no other operator and no
\* other graph changes; a second call on the bound subtree changes no
\* owner and no query graph.
C13_BindPlanToOpsBindsSubtree ==
  [][last'.call = "bind_plan_to_ops" =>
       LET pl == last'.args[1]
           r == last'.args[2]
           sub == IF r = NULL THEN {} ELSE SubtreeOf(parent, r)
           after == [plan |-> plan', query_graph |-> query_graph']
       IN /\ \A o \in sub : plan'[o] = pl
          /\ \A o \in sub : query_graph[plan[o]] \subseteq query_graph'[pl]
          /\ query_graph[pl] \subseteq query_graph'[pl]
          /\ \A o \in Ops \ sub : plan'[o] = plan[o]
          /\ \A other \in Plans \ {pl} : query_graph'[other] = query_graph[other]
          /\ ExecutionPlan_BindPlanToOps(after, pl, r) = after
    ]_vars

\* C13 witness: a subtree of three or more operators, two levels deep, was
\* bound to "plan", whose query graph received an entity of the other
\* plan's graph; an operator outside the subtree still belongs to the
\* other plan.
C13_Witness ==
  /\ last.call = "bind_plan_to_ops"
  /\ last.args[1] = "plan"
  /\ last.args[2] # NULL
  /\ LET sub == SubtreeOf(parent, last.args[2])
     IN /\ Cardinality(sub) >= 3
        /\ \E o \in sub : parent[o] \in sub \ {last.args[2]}
        /\ \A o \in sub : plan[o] = "plan"
        /\ \E o \in Ops \ sub : plan[o] = "match_stream_plan"
  /\ query_graph["plan"] = {"a", "b"}
  /\ query_graph["match_stream_plan"] = {"b"}

\* ----------------------------------------------------------------------
\* Building a fragment (checked under BuildSpec)
\* ----------------------------------------------------------------------

\* C14 (as stated): build_ops_from_pattern called with bound variables {x}
\* returns a root of the Argument kind that exposes exactly {x}, whatever
\* the planning step adds.
C14_FragmentRootIsArgument ==
  (pc = "done" /\ build.bound_vars # NoBoundVars) =>
    /\ build.match_stream_root # NULL
    /\ type[build.match_stream_root] = OPType_ARGUMENT
    /\ modifies[build.match_stream_root] = build.bound_vars

\* C14 (amended): build_ops_from_pattern called with bound variables {x}
\* returns a fragment that holds an operator of the Argument kind exposing
\* exactly {x}; that operator is the returned root only when the planning
\* step installed no root of its own, otherwise the returned root is the
\* operator the planning step installed last.
C14_ArgumentSeedsFragment ==
  (pc = "done" /\ build.bound_vars # NoBoundVars) =>
    LET match_stream_root == build.match_stream_root IN
    /\ match_stream_root # NULL
    /\ \E arg \in SubtreeOf(parent, match_stream_root) :
         /\ type[arg] = OPType_ARGUMENT
         /\ modifies[arg] = build.bound_vars
         /\ (match_stream_root = arg) <=> (build.planned = <<>>)
    /\ build.planned # <<>> =>
         match_stream_root = build.planned[Len(build.planned)]

\* C14 witness: the call returned with bound variables after the planning
\* step had installed two roots; the Argument operator lies two levels or
\* more below the returned root.
C14_Witness ==
  /\ pc = "done"
  /\ build.bound_vars # NoBoundVars
  /\ Len(build.planned) >= 2
  /\ \E arg \in SubtreeOf(parent, build.match_stream_root) :
       /\ type[arg] = OPType_ARGUMENT
       /\ parent[arg] # NULL
       /\ parent[arg] # build.match_stream_root

\* C15: the temporary plan is freed only when its operators are bound to
\* the calling plan and its root and record mapping are both NULL; freeing
\* it frees neither an operator of the returned subtree nor the calling
\* plan's record mapping, which the calling plan still holds.
C15_FreeAfterBindAndNullSet ==
  [][freed' # freed =>
       LET returned == IF build.match_stream_root = NULL THEN {}
                       ELSE SubtreeOf(parent, build.match_stream_root)
       IN /\ \A o \in returned : plan[o] = "plan"
          /\ root["match_stream_plan"] = NULL
          /\ record_map["match_stream_plan"] = NULL
          /\ freed'.plans = {"match_stream_plan"}
          /\ freed'.ops \cap returned = {}
          /\ RecordMap \notin freed'.record_maps
          /\ record_map'["plan"] = RecordMap
    ]_vars

\* C15 witness: the call returned a subtree of three or more operators,
\* the temporary plan is freed, no operator and no record mapping is.
C15_Witness ==
  /\ pc = "done"
  /\ build.match_stream_root # NULL
  /\ Cardinality(SubtreeOf(parent, build.match_stream_root)) >= 3
  /\ freed = [ops |-> {}, record_maps |-> {}, plans |-> {"match_stream_plan"}]
  /\ record_map["plan"] = RecordMap
  /\ \A o \in SubtreeOf(parent, build.match_stream_root) : plan[o] = "plan"

====
